---- MODULE Spec2Model ----
(***************************************************************************)
(* A model of sliver's command line (src/sliver/cli.py): the two commands  *)
(* `lookup` and `fetch`, and the configuration EmbeddedWaybackCli.load     *)
(* hands to the embedded pywb proxy.                                       *)
(*                                                                         *)
(* Text is a sequence of one-character strings, so that str.strip() and    *)
(* str.startswith() are computed and not assumed.  Python's None is the    *)
(* empty sequence <<>> of an option value, and a value v is <<v>>.         *)
(***************************************************************************)
EXTENDS Integers, Sequences, FiniteSets, TLC

\* ------------------------------------------------------------------ bounds

\* The longest index response the model reads, in lines.
MaxResponseLines == 4

\* The longest URL file the model reads, in lines.
MaxUrlLines == 3

\* The most requests the capture tool's browser sends to the proxy.
MaxProxyRequests == 2

\* ------------------------------------------------------------ text helpers

\* The characters str.strip() removes (no argument: whitespace).
Whitespace == {" ", "\t", "\r", "\n"}

RECURSIVE lstrip(_)
lstrip(s) ==
    IF s # <<>> /\ Head(s) \in Whitespace THEN lstrip(Tail(s)) ELSE s

RECURSIVE rstrip(_)
rstrip(s) ==
    IF s # <<>> /\ s[Len(s)] \in Whitespace
    THEN rstrip(SubSeq(s, 1, Len(s) - 1))
    ELSE s

\* str.strip(): leading and trailing whitespace removed.
strip(s) == rstrip(lstrip(s))

\* str.startswith(c) for a one-character prefix.
startswith(s, c) == s # <<>> /\ Head(s) = c

\* Option values: None and a present value.
None == <<>>
Some(v) == <<v>>

\* ------------------------------------------------------------ input domains

\* click.Choice(['live', 'ia']) of the shared --source option.
CliSources == {"live", "ia"}

\* The only default of --source.
DefaultSource == "live"

\* Lines an index server can send.  Iterating the response yields each line
\* with its terminator; the last line of a body may lack one.
ResponseLines ==
    { <<"\n">>,                    \* the empty line
      <<" ", "\n">>,               \* a whitespace-only line
      <<"a", "\n">>,               \* record lines
      <<" ", "b", " ", "\n">>,
      <<"k", "\n">>,               \* a resume key, terminated
      <<"k">> }                    \* a resume key ending the body

\* The URL prefixes lookup is asked about.
LookupUrls == { <<"a">> }

\* Lines of a URL file, each with its terminator.
UrlFileLines ==
    { <<"\n">>,                    \* the empty line
      <<" ", "\n">>,               \* a whitespace-only line
      <<"#", "c", "\n">>,          \* a comment
      <<" ", "#", "c", "\n">>,     \* a comment after leading whitespace
      <<"a", "\n">>,               \* URLs
      <<" ", "b", " ", "\n">> }

\* The default of fetch's --timestamp and of EmbeddedWaybackCli's --timestamp.
DefaultTimestamp == "19950101000000"

\* Values given to fetch's --timestamp, which is any string (type=str).
Timestamps == {DefaultTimestamp, "20200101000000", "yesterday"}

\* What ./collections/mementos/archive/ may hold from earlier runs: records
\* keyed by URL and timestamp.
EarlierRecords == { <<<<"a">>, DefaultTimestamp>> }

\* -------------------------------------------------------------------- state

VARIABLES
    cmd,          \* the command invoked: "none", "lookup" or "fetch"
    pc,           \* the position of the command's control
    source,       \* the --source argument
    error,        \* None, or the exception that ended the command
    \* lookup
    url,          \* the URL argument
    params,       \* None, or the query parameters of the request issued
    requests,     \* the number of urllib.request.urlopen calls made
    received,     \* the lines read from the response so far, raw
    echoed,       \* the lines click.echo has written to standard output
    ended,        \* lookup's local `ended`
    resumeKey,    \* lookup's local `resumeKey` (None, or a key)
    warnings,     \* the logging.warning records of the command, in order
    \* fetch
    timestamp,    \* the --timestamp argument
    session,      \* the embedded server: "none", "started" or "stopped"
    starts,       \* the number of embedded.run() calls
    stops,        \* the number of embedded.ge.stop() calls
    waited,       \* whether time.sleep(3) has elapsed since the start
    extra_config, \* None, or the configuration load() built
    proxy_default_timestamp,
                  \* None, or the application's proxy_default_timestamp
    url_lines,    \* the lines read from url_file so far, raw
    shots,        \* fetch's local `shots`
    shots_file,   \* the temporary file: whether it exists, and its content
    capture,      \* the capture tool: "idle", "running", "returned", "raised"
    archive,      \* the records in ./collections/mementos/archive/
    reply         \* None, or how the proxy answered its latest request

lookup_vars == <<url, params, requests, received, echoed, ended, resumeKey>>

session_vars == <<session, starts, stops, waited, extra_config,
                  proxy_default_timestamp>>

batch_vars == <<url_lines, shots, shots_file, capture>>

proxy_vars == <<archive, reply>>

fetch_vars == <<timestamp, session_vars, batch_vars, proxy_vars>>

vars == <<cmd, pc, source, error, lookup_vars, warnings, fetch_vars>>

\* ------------------------------------------------------------------- lookup

\* LookupPlan with the 'live' branch lost: 'live' is served by the branch
\* before it.
LookupPlanLiveQueried(s) ==
    IF s = "cc-2025-05" \/ s = "cc"
    THEN [raise |-> None,
          URL |-> "http://index.commoncrawl.org/CC-MAIN-2025-05-index",
          matchType |-> "host", filter |-> "", warn |-> TRUE]
    ELSE IF s = "ia" \/ s = "live"
    THEN [raise |-> None,
          URL |-> "https://web.archive.org/cdx/search/cdx",
          matchType |-> "prefix", filter |-> "statuscode:[23]..", warn |-> FALSE]
    ELSE [raise |-> Some("ValueError: Unknown source!"),
          URL |-> "", matchType |-> "prefix", filter |-> "statuscode:[23]..",
          warn |-> FALSE]

\* LookupPlan with line 129 lost: the host-only branch keeps the status-code
\* filter.
LookupPlanHostKeepsFilter(s) ==
    IF s = "cc-2025-05" \/ s = "cc"
    THEN [raise |-> None,
          URL |-> "http://index.commoncrawl.org/CC-MAIN-2025-05-index",
          matchType |-> "host", filter |-> "statuscode:[23]..", warn |-> TRUE]
    ELSE IF s = "ia"
    THEN [raise |-> None,
          URL |-> "https://web.archive.org/cdx/search/cdx",
          matchType |-> "prefix", filter |-> "statuscode:[23]..", warn |-> FALSE]
    ELSE IF s = "live"
    THEN [raise |-> Some("ValueError: no lookup on the live web"),
          URL |-> "", matchType |-> "prefix", filter |-> "statuscode:[23]..",
          warn |-> FALSE]
    ELSE [raise |-> Some("ValueError: Unknown source!"),
          URL |-> "", matchType |-> "prefix", filter |-> "statuscode:[23]..",
          warn |-> FALSE]

\* lookup, lines 123-135: the endpoint, match type and filter of a source, or
\* the exception raised for it.
LookupPlan(s) ==
    IF s = "cc-2025-05" \/ s = "cc"
    THEN [raise |-> None,
          URL |-> "http://index.commoncrawl.org/CC-MAIN-2025-05-index",
          matchType |-> "host", filter |-> "", warn |-> TRUE]
    ELSE IF s = "ia"
    THEN [raise |-> None,
          URL |-> "https://web.archive.org/cdx/search/cdx",
          matchType |-> "prefix", filter |-> "statuscode:[23]..", warn |-> FALSE]
    ELSE IF s = "live"
    THEN [raise |-> Some("ValueError: no lookup on the live web"),
          URL |-> "", matchType |-> "prefix", filter |-> "statuscode:[23]..",
          warn |-> FALSE]
    ELSE [raise |-> Some("ValueError: Unknown source!"),
          URL |-> "", matchType |-> "prefix", filter |-> "statuscode:[23]..",
          warn |-> FALSE]

\* lookup, lines 138-145: the query parameters.
LookupParams(u, plan) ==
    [URL |-> plan.URL, url |-> u, collapse |-> "urlkey",
     matchType |-> plan.matchType, limit |-> 10000, filter |-> plan.filter,
     showResumeKey |-> TRUE]

HostOnlyWarning == [kind |-> "host-only", text |-> <<>>]
ResumeWarning(k) == [kind |-> "resume-key", text |-> k]

\* lookup, lines 122-149: everything up to the request, or to the raise.
LookupStart(u, s) ==
    /\ pc = "idle"
    /\ cmd' = "lookup"
    /\ source' = s
    /\ url' = u
    /\ LET plan == LookupPlan(s) IN
        /\ warnings' = IF plan.warn THEN Append(warnings, HostOnlyWarning)
                                    ELSE warnings
        /\ IF plan.raise # None
           THEN /\ error' = plan.raise
                /\ pc' = "exited"
                /\ params' = params
           ELSE /\ error' = error
                /\ pc' = "urlopen"
                /\ params' = Some(LookupParams(u, plan))
    /\ UNCHANGED <<requests, received, echoed, ended, resumeKey, fetch_vars>>

\* lookup, line 152: the request is issued and the response opens.
UrlopenOk ==
    /\ pc = "urlopen"
    /\ requests' = requests + 1
    /\ pc' = "response"
    /\ UNCHANGED <<cmd, source, error, url, params, received, echoed, ended,
                   resumeKey, warnings, fetch_vars>>

\* UrlopenFail with a retry: the failure is caught and the request issued
\* again.
UrlopenFailRetried ==
    /\ pc = "urlopen"
    /\ requests' = requests + 1
    /\ UNCHANGED <<cmd, pc, source, error, url, params, received, echoed,
                   ended, resumeKey, warnings, fetch_vars>>

\* lookup, line 152: the request is issued and fails; urlopen's exception is
\* not caught, so it ends the command.
UrlopenFail ==
    /\ pc = "urlopen"
    /\ requests' = requests + 1
    /\ error' = Some("URLError")
    /\ pc' = "exited"
    /\ UNCHANGED <<cmd, source, url, params, received, echoed, ended,
                   resumeKey, warnings, fetch_vars>>

\* LookupLine without the sentinel: a blank line is skipped and `ended` is
\* never set, so every other line is echoed.
LookupLineNoSentinel(l, line) ==
    LET cdx == strip(line) IN
    IF cdx = <<>> THEN l ELSE [l EXCEPT !.echoed = Append(l.echoed, cdx)]

\* LookupLine without the `resumeKey is None` test: every line after the
\* sentinel is taken as the resume key, the last one staying.
LookupLineKeyOverwritten(l, line) ==
    IF ~l.ended
    THEN LET cdx == strip(line) IN
         IF cdx = <<>>
         THEN [l EXCEPT !.ended = TRUE]
         ELSE [l EXCEPT !.echoed = Append(l.echoed, cdx)]
    ELSE [l EXCEPT !.resumeKey = Some(strip(line))]

\* LookupLine with the sentinel echoed: the blank line sets `ended` and is
\* written out as well.
LookupLineBlankEchoed(l, line) ==
    IF ~l.ended
    THEN LET cdx == strip(line) IN
         [l EXCEPT !.ended = (cdx = <<>>), !.echoed = Append(l.echoed, cdx)]
    ELSE IF l.resumeKey = None
    THEN [l EXCEPT !.resumeKey = Some(strip(line))]
    ELSE l

\* lookup, lines 154-162: the body of the loop over the response's lines, on
\* the locals l = [ended, resumeKey, echoed].
LookupLine(l, line) ==
    IF ~l.ended
    THEN LET cdx == strip(line) IN
         IF cdx = <<>>
         THEN [l EXCEPT !.ended = TRUE]
         ELSE [l EXCEPT !.echoed = Append(l.echoed, cdx)]
    ELSE IF l.resumeKey = None
    THEN [l EXCEPT !.resumeKey = Some(strip(line))]
    ELSE l

\* A line that ends with its terminator: only after such a line can another
\* line follow in the body.
Terminated(line) == line # <<>> /\ line[Len(line)] = "\n"

\* lookup, line 153: the next line of the response arrives and is handled.
ReadLine(line) ==
    /\ pc = "response"
    /\ Len(received) < MaxResponseLines
    /\ received # <<>> => Terminated(received[Len(received)])
    /\ received' = Append(received, line)
    /\ LET l == LookupLine([ended |-> ended, resumeKey |-> resumeKey,
                            echoed |-> echoed], line) IN
        /\ ended' = l.ended
        /\ resumeKey' = l.resumeKey
        /\ echoed' = l.echoed
    /\ UNCHANGED <<cmd, pc, source, error, url, params, requests, warnings,
                   fetch_vars>>

\* ResumeKeyReport without its `is not None` test: None is logged too.
ResumeKeyReportAlways(key) ==
    <<ResumeWarning(IF key # None THEN key[1] ELSE <<"N", "o", "n", "e">>)>>

\* lookup, lines 164-165: what is logged once the response is drained.
ResumeKeyReport(key) ==
    IF key # None THEN <<ResumeWarning(key[1])>> ELSE <<>>

\* lookup, lines 153 and 164-165: the response ends; the resume key, if one
\* was taken, is logged and the command returns.
EndOfResponse ==
    /\ pc = "response"
    /\ warnings' = warnings \o ResumeKeyReport(resumeKey)
    /\ pc' = "exited"
    /\ UNCHANGED <<cmd, source, error, lookup_vars, fetch_vars>>

\* ------------------------------------------------------ EmbeddedWaybackCli

\* EmbeddedWaybackCli.sources: the choices of its --source argument.
sources ==
    [live |-> "$live",
     ia |-> "memento+https://web.archive.org/web/",
     ia_cdx |-> "cdx+https://web.archive.org/cdx /web"]

\* _extend_parser applied to args = ['--source', source]: fetch passes no
\* --timestamp, so the parser's default stands.
parse_args(s) == [source |-> s, timestamp |-> DefaultTimestamp]

\* The entries load() puts in the stack's sequence.  A key an entry does not
\* have is None.
LiveTier ==
    [name |-> "source", index |-> Some("$live"),
     archive_paths |-> None, index_paths |-> None]

LocalTier ==
    [name |-> "mementos", index |-> None,
     archive_paths |-> Some("./collections/mementos/archive/"),
     index_paths |-> Some("./collections/mementos/indexes")]

RemoteTier ==
    [name |-> "source", index |-> Some("memento+https://web.archive.org/web/"),
     archive_paths |-> None, index_paths |-> None]

\* StackSequence with the two archival tiers in the other order.
StackSequenceRemoteFirst(s) ==
    IF s = "live" THEN <<LiveTier>> ELSE <<RemoteTier, LocalTier>>

\* StackSequence with the live tier named after its collection, 'live', which
\* is not the name the recorder filters on.
StackSequenceLiveNamedLive(s) ==
    IF s = "live" THEN <<[LiveTier EXCEPT !.name = "live"]>>
                  ELSE <<LocalTier, RemoteTier>>

\* StackSequence with both archival tiers named 'source', the name the
\* recorder filters on.
StackSequenceLocalNamedSource(s) ==
    IF s = "live" THEN <<LiveTier>>
                  ELSE <<[LocalTier EXCEPT !.name = "source"], RemoteTier>>

\* StackSequence with the remote tier named after its collection, 'ia', which
\* is not the name the recorder filters on.
StackSequenceRemoteNamedIa(s) ==
    IF s = "live" THEN <<LiveTier>>
                  ELSE <<LocalTier, [RemoteTier EXCEPT !.name = "ia"]>>

\* load, lines 73-86: the stack's sequence for a source.
StackSequence(s) ==
    IF s = "live" THEN <<LiveTier>> ELSE <<LocalTier, RemoteTier>>

\* load, lines 48-86: the configuration handed to pywb.
load(r) ==
    [collections |->
        [ia |-> "memento+https://web.archive.org/web/",
         ia_cdx |-> "cdx+https://web.archive.org/cdx /web",
         live |-> [index |-> "$live"],
         stack |-> [sequence |-> StackSequence(r.source)]],
     recorder |->
        [source_coll |-> "stack",
         source_filter |-> "source",
         filename_template |-> "SLIVER-{timestamp}-{random}.warc.gz"],
     proxy |->
        [coll |-> "mementos",
         recording |-> TRUE,
         default_timestamp |-> r.timestamp],
     autoindex |-> 10,
     enable_auto_fetch |-> TRUE,
     enable_wombat |-> TRUE]

\* -------------------------------------------------------------------- fetch

\* fetch, lines 177-185: the folders are made, the embedded server is built
\* from ['--source', source] and run.
FetchStart(s, t) ==
    /\ pc = "idle"
    /\ cmd' = "fetch"
    /\ source' = s
    /\ timestamp' = t
    /\ LET cfg == load(parse_args(s)) IN
        /\ extra_config' = Some(cfg)
        /\ proxy_default_timestamp' = Some(cfg.proxy.default_timestamp)
    /\ session' = "started"
    /\ starts' = starts + 1
    /\ pc' = "sleep"
    /\ UNCHANGED <<error, lookup_vars, warnings, stops, waited, batch_vars,
                   proxy_vars>>

\* Sleep without the sleep: fetch goes on at once.
SleepSkipped ==
    /\ pc = "sleep"
    /\ pc' = "read"
    /\ UNCHANGED <<cmd, source, error, lookup_vars, warnings, timestamp,
                   session_vars, batch_vars, proxy_vars>>

\* fetch, line 187: time.sleep(3).
Sleep ==
    /\ pc = "sleep"
    /\ waited' = TRUE
    /\ pc' = "read"
    /\ UNCHANGED <<cmd, source, error, lookup_vars, warnings, timestamp,
                   session, starts, stops, extra_config,
                   proxy_default_timestamp, batch_vars, proxy_vars>>

\* shot_scraper.utils.filename_for_url: a file name made of the URL's
\* characters, each one that is no letter or digit replaced by "-".
filename_for_url(u) ==
    [i \in 1..Len(u) |-> IF u[i] \in {"a", "b", "c"} THEN u[i] ELSE "-"]
        \o <<".", "p", "n", "g">>

\* fetch, lines 194-201: the job of a URL.
Shot(u) ==
    [url |-> u,
     output |-> [dir |-> "collections/mementos/screenshots/",
                 name |-> filename_for_url(u)],
     wait |-> 15000,
     width |-> 800,
     height |-> 800,
     padding |-> 0]

\* ShotsAfter without the comment test: every non-blank line gives a job.
ShotsAfterKeepingComments(sh, line) ==
    LET u == strip(line) IN
    IF u # <<>> THEN Append(sh, Shot(u)) ELSE sh

\* fetch, lines 192-201: the body of the loop over url_file's lines.
ShotsAfter(sh, line) ==
    LET u == strip(line) IN
    IF u # <<>> /\ ~startswith(u, "#") THEN Append(sh, Shot(u)) ELSE sh

\* fetch, line 191: the next line of url_file is read and handled.
ReadUrlLine(line) ==
    /\ pc = "read"
    /\ Len(url_lines) < MaxUrlLines
    /\ url_lines' = Append(url_lines, line)
    /\ shots' = ShotsAfter(shots, line)
    /\ UNCHANGED <<cmd, pc, source, error, lookup_vars, warnings, timestamp,
                   session_vars, shots_file, capture, proxy_vars>>

\* SetProxyTimestamp without the assignment of line 211: the default timestamp
\* stays the one load() configured.
SetProxyTimestampForgotten ==
    /\ pc = "read"
    /\ pc' = "tempfile"
    /\ UNCHANGED <<cmd, source, error, lookup_vars, warnings, timestamp,
                   session_vars, batch_vars, proxy_vars>>

\* fetch, lines 191 and 211: url_file is exhausted, and the application's
\* default timestamp is set to the one asked for.
SetProxyTimestamp ==
    /\ pc = "read"
    /\ proxy_default_timestamp' = Some(timestamp)
    /\ pc' = "tempfile"
    /\ UNCHANGED <<cmd, source, error, lookup_vars, warnings, timestamp,
                   session, starts, stops, waited, extra_config, batch_vars,
                   proxy_vars>>

\* tempfile.NamedTemporaryFile(..., delete=False): what closing the file does
\* to it.  With delete=False the file stays.
CloseShotsFile(f) == [f EXCEPT !.open = FALSE]

\* fetch, line 213: the temporary file is created.
OpenShotsFile ==
    /\ pc = "tempfile"
    /\ shots_file' = [exists |-> TRUE, open |-> TRUE, content |-> None]
    /\ pc' = "dump"
    /\ UNCHANGED <<cmd, source, error, lookup_vars, warnings, timestamp,
                   session_vars, url_lines, shots, capture, proxy_vars>>

\* fetch, lines 215-216: the jobs are written and the file is closed.
DumpShots ==
    /\ pc = "dump"
    /\ shots_file' = CloseShotsFile([shots_file EXCEPT !.content = Some(shots)])
    /\ pc' = "invoke"
    /\ UNCHANGED <<cmd, source, error, lookup_vars, warnings, timestamp,
                   session_vars, url_lines, shots, capture, proxy_vars>>

\* fetch, line 215: yaml.dump raises (the write fails).  Leaving the `with`
\* block closes the file; nothing catches the exception.
DumpRaises ==
    /\ pc = "dump"
    /\ shots_file' = CloseShotsFile(shots_file)
    /\ error' = Some("yaml.dump raised")
    /\ pc' = "exited"
    /\ UNCHANGED <<cmd, source, lookup_vars, warnings, timestamp,
                   session_vars, url_lines, shots, capture, proxy_vars>>

\* fetch, line 219: the capture tool is called with the file's name.
InvokeMulti ==
    /\ pc = "invoke"
    /\ capture' = "running"
    /\ pc' = "multi"
    /\ UNCHANGED <<cmd, source, error, lookup_vars, warnings, timestamp,
                   session_vars, url_lines, shots, shots_file, proxy_vars>>

\* fetch, lines 219-220: the capture tool returns, having failed on some jobs
\* or on none, and the `with` block is left.
MultiReturns(failures) ==
    /\ pc = "multi"
    /\ capture' = IF failures THEN "returned with failures" ELSE "returned"
    /\ shots_file' = CloseShotsFile(shots_file)
    /\ pc' = "stop"
    /\ UNCHANGED <<cmd, source, error, lookup_vars, warnings, timestamp,
                   session_vars, url_lines, shots, proxy_vars>>

\* fetch, line 219: the capture tool raises instead of returning (multi is a
\* click command called as a function: a usage error, an abort and click's own
\* exit all leave it by an exception).  Nothing catches it.
MultiRaises ==
    /\ pc = "multi"
    /\ capture' = "raised"
    /\ shots_file' = CloseShotsFile(shots_file)
    /\ error' = Some("multi raised")
    /\ pc' = "exited"
    /\ UNCHANGED <<cmd, source, lookup_vars, warnings, timestamp,
                   session_vars, url_lines, shots, proxy_vars>>

\* fetch, lines 222-223: embedded.ge.stop().
StopServer ==
    /\ pc = "stop"
    /\ session' = "stopped"
    /\ stops' = stops + 1
    /\ pc' = "exited"
    /\ UNCHANGED <<cmd, source, error, lookup_vars, warnings, timestamp,
                   starts, waited, extra_config, proxy_default_timestamp,
                   batch_vars, proxy_vars>>

\* -------------------------------------------------------- the proxy at work

\* Whether a tier of the stack holds a record of URL u at timestamp t: a tier
\* with archive_paths reads the local archive, any other asks its index, which
\* has the record (upstream) or not.
TierHolds(tier, arch, u, t, upstream) ==
    IF tier.archive_paths # None THEN <<u, t>> \in arch ELSE upstream

\* The position (from 0) of the first tier of the sequence that holds the
\* record, -1 when none does.
Resolve(seq, arch, u, t, upstream) ==
    LET hits == { i \in 1..Len(seq) : TierHolds(seq[i], arch, u, t, upstream) }
    IN  IF hits = {} THEN -1
        ELSE (CHOOSE i \in hits : \A j \in hits : i <= j) - 1

\* load, lines 57-66: whether the configuration has the proxy record the
\* answers of a tier: recording is on, the recorder reads the stack, and the
\* tier's name is the one the recorder filters on.
RecorderAccepts(cfg, tier) ==
    /\ cfg.proxy.recording
    /\ cfg.recorder.source_coll = "stack"
    /\ tier.name = cfg.recorder.source_filter

\* The number of requests the proxy has answered.
Answered == IF reply = None THEN 0 ELSE reply[1].n

\* The capture tool's browser asks the proxy for the URL of one of its jobs,
\* with no timestamp of its own: the proxy's default timestamp applies.  The
\* remote or live index has the record (upstream) or not.
ProxyRequest(u, upstream) ==
    /\ pc = "multi"
    /\ session = "started"
    /\ Answered < MaxProxyRequests
    /\ shots_file.content # None
    /\ \E i \in 1..Len(shots_file.content[1]) : shots_file.content[1][i].url = u
    /\ LET cfg == extra_config[1]
           seq == cfg.collections.stack.sequence
           t == proxy_default_timestamp[1]
           n == Resolve(seq, archive, u, t, upstream)
           rec == n >= 0 /\ RecorderAccepts(cfg, seq[n + 1])
       IN  /\ reply' = Some([n |-> Answered + 1, url |-> u, timestamp |-> t,
                             upstream |-> upstream, tier |-> n,
                             recorded |-> rec])
           /\ archive' = IF rec THEN archive \cup {<<u, t>>} ELSE archive
    /\ UNCHANGED <<cmd, pc, source, error, lookup_vars, warnings, timestamp,
                   session_vars, batch_vars>>

\* ------------------------------------------------------------ specification

Init ==
    /\ cmd = "none"
    /\ pc = "idle"
    /\ source = DefaultSource
    /\ error = None
    /\ url = <<>>
    /\ params = None
    /\ requests = 0
    /\ received = <<>>
    /\ echoed = <<>>
    /\ ended = FALSE
    /\ resumeKey = None
    /\ warnings = <<>>
    /\ timestamp = DefaultTimestamp
    /\ session = "none"
    /\ starts = 0
    /\ stops = 0
    /\ waited = FALSE
    /\ extra_config = None
    /\ proxy_default_timestamp = None
    /\ url_lines = <<>>
    /\ shots = <<>>
    /\ shots_file = [exists |-> FALSE, open |-> FALSE, content |-> None]
    /\ capture = "idle"
    /\ archive \in SUBSET EarlierRecords
    /\ reply = None

\* The URLs a line of a URL file can give.
Urls == { strip(line) : line \in UrlFileLines }

Next ==
    \/ \E u \in LookupUrls, s \in CliSources : LookupStart(u, s)
    \/ UrlopenOk
    \/ UrlopenFail
    \/ \E line \in ResponseLines : ReadLine(line)
    \/ EndOfResponse
    \/ \E s \in CliSources, t \in Timestamps : FetchStart(s, t)
    \/ Sleep
    \/ \E line \in UrlFileLines : ReadUrlLine(line)
    \/ SetProxyTimestamp
    \/ OpenShotsFile
    \/ DumpShots
    \/ DumpRaises
    \/ InvokeMulti
    \/ \E u \in Urls, upstream \in BOOLEAN : ProxyRequest(u, upstream)
    \/ \E failures \in BOOLEAN : MultiReturns(failures)
    \/ MultiRaises
    \/ StopServer

Spec == Init /\ [][Next]_vars

\* The sources lookup's body tells apart (lines 125-135), 'other' standing for
\* any string it does not name.  The command line offers only CliSources;
\* the rest reach the body when lookup's callback is called with them.
LookupSources == {"live", "ia", "cc", "cc-2025-05", "other"}

\* The commands, and lookup's callback applied to any source.
NextAnySource ==
    \/ \E u \in LookupUrls, s \in LookupSources \ CliSources : LookupStart(u, s)
    \/ Next

SpecAnySource == Init /\ [][NextAnySource]_vars

\* ------------------------------------------------------- claims about lookup

\* A line lookup takes for blank: empty once stripped.
IsBlank(line) == strip(line) = <<>>

\* lookup has read the whole response and returned.
Drained == cmd = "lookup" /\ pc = "exited" /\ error = None

\* The resume keys the command has reported, in order.
ReportedKeys ==
    LET r == SelectSeq(warnings, LAMBDA w : w.kind = "resume-key")
    IN  [i \in 1..Len(r) |-> r[i].text]

\* The first n lines of the response, as lookup echoes a record line.
Records(n) == [i \in 1..n |-> strip(received[i])]

\* The response is n record lines, one blank line, one resume-key line.
RecordsBlankKey(n) ==
    /\ Len(received) = n + 2
    /\ \A i \in 1..n : ~IsBlank(received[i])
    /\ IsBlank(received[n + 1])
    /\ ~IsBlank(received[n + 2])

\* The response is n record lines and one blank line, which ends it.
RecordsBlank(n) ==
    /\ Len(received) = n + 1
    /\ \A i \in 1..n : ~IsBlank(received[i])
    /\ IsBlank(received[n + 1])

\* The position of the first blank line of the response, 0 when there is none.
FirstBlank ==
    IF \E i \in 1..Len(received) : IsBlank(received[i])
    THEN CHOOSE i \in 1..Len(received) :
            /\ IsBlank(received[i])
            /\ \A j \in 1..(i - 1) : ~IsBlank(received[j])
    ELSE 0

\* The token the specification asks for: the first non-empty line after the
\* first blank line, None when there is no such line.
TokenAfterSentinel ==
    LET after == { i \in (FirstBlank + 1)..Len(received) : ~IsBlank(received[i]) }
    IN  IF FirstBlank = 0 \/ after = {}
        THEN None
        ELSE Some(strip(received[CHOOSE i \in after : \A j \in after : i <= j]))

\* C4: a lookup with source 'live' ends with an error, and has then issued no
\* HTTP request, built no query and written no record to standard output.
C4_LiveLookupFailsBeforeAnyRequest ==
    (cmd = "lookup" /\ source = "live") =>
        /\ pc = "exited"
        /\ error # None
        /\ requests = 0
        /\ params = None
        /\ echoed = <<>>

\* C4's case: a lookup of the live web has been invoked and has ended.
C4_Witness ==
    /\ cmd = "lookup"
    /\ source = "live"
    /\ pc = "exited"
    /\ error = Some("ValueError: no lookup on the live web")

\* C5: once lookup has drained a response of N record lines, one blank line
\* and one resume-key line, it has echoed exactly the N records, in response
\* order, and has taken and reported exactly that resume key (N = 0: nothing
\* is echoed).
C5_RecordsThenResumeKey ==
    \A n \in 0..MaxResponseLines :
        (Drained /\ RecordsBlankKey(n)) =>
            /\ echoed = Records(n)
            /\ resumeKey = Some(strip(received[n + 2]))
            /\ ReportedKeys = <<strip(received[n + 2])>>

\* C5's case: a drained response of two different records, a blank line and a
\* resume key.
C5_Witness ==
    /\ Drained
    /\ RecordsBlankKey(2)
    /\ strip(received[1]) # strip(received[2])
    /\ Len(echoed) = 2

\* C6 (as the specification states it): once the response is drained, the
\* token taken and reported is the first non-empty line after the first blank
\* line; blank lines after the sentinel never become the token, and without
\* such a line there is no token.
C6_TokenIsNextNonEmptyLine ==
    Drained =>
        /\ resumeKey = TokenAfterSentinel
        /\ ReportedKeys = TokenAfterSentinel

\* C7: once lookup has drained a response of N record lines and one blank
\* line, which is the one blank line and the last line of the response, it has
\* echoed exactly the N records and reports no continuation token: no
\* resume-key warning is logged.
C7_BlankLineLastNoToken ==
    \A n \in 0..MaxResponseLines :
        (Drained /\ RecordsBlank(n)) =>
            /\ echoed = Records(n)
            /\ resumeKey = None
            /\ ReportedKeys = <<>>

\* C7's case: a drained response of two records and the closing blank line.
C7_Witness ==
    /\ Drained
    /\ RecordsBlank(2)
    /\ Len(echoed) = 2
    /\ warnings = <<>>

\* C15: the request of a lookup against a source that supports only
\* host-level matching (the Common Crawl index) carries matchType 'host' and
\* an empty filter, and the host-only warning has been logged; the request of
\* a lookup against a source that supports prefix matching (ia) carries the
\* intended matchType 'prefix' and the intended filter, and no such warning.
C15_MatchTypePolicy ==
    (cmd = "lookup" /\ params # None) =>
        LET q == params[1]
            warned == \E i \in 1..Len(warnings) : warnings[i] = HostOnlyWarning
        IN  /\ source \in {"cc", "cc-2025-05"} =>
                    /\ q.matchType = "host"
                    /\ q.filter = ""
                    /\ warned
            /\ source = "ia" =>
                    /\ q.matchType = "prefix"
                    /\ q.filter = "statuscode:[23].."
                    /\ ~warned
            /\ source \in {"cc", "cc-2025-05", "ia"}

\* C15's case: a lookup against the Common Crawl index has issued its request.
C15_Witness ==
    /\ cmd = "lookup"
    /\ source = "cc"
    /\ params # None
    /\ params[1].matchType = "host"
    /\ requests = 1

\* C16: a lookup issues at most one HTTP request: when urlopen has failed the
\* command has ended with that error after the one request, and after a
\* drained response, resume key or not, no further request has been issued.
C16_AtMostOneRequest ==
    cmd = "lookup" =>
        /\ requests <= 1
        /\ error = Some("URLError") => (pc = "exited" /\ requests = 1)
        /\ pc = "response" => requests = 1
        /\ Drained => requests = 1

\* C16's case: the request has failed and the command has ended.
C16_Witness ==
    /\ cmd = "lookup"
    /\ error = Some("URLError")
    /\ pc = "exited"
    /\ requests = 1

\* C17: once lookup has taken a continuation token, a further line of the
\* response neither changes the token nor is echoed; and once the first blank
\* line is seen no line is echoed any more, so what is echoed is the lines
\* before the first blank line.
C17_LinesAfterTokenIgnored ==
    [][ /\ resumeKey # None => (resumeKey' = resumeKey /\ echoed' = echoed)
        /\ ended => (ended' /\ echoed' = echoed)
        /\ FirstBlank > 0 => (ended /\ echoed = Records(FirstBlank - 1))
      ]_vars

\* C17's case: a record, the blank line, the token, and a line after the
\* token that differs from it, all read.
C17_Witness ==
    /\ cmd = "lookup"
    /\ Len(received) = 4
    /\ FirstBlank = 2
    /\ ~IsBlank(received[3])
    /\ strip(received[4]) # strip(received[3])
    /\ resumeKey = Some(strip(received[3]))
    /\ Len(echoed) = 1

\* C19: once lookup has drained a response with no blank line at all, it has
\* echoed every line, in order, and has taken and reported no continuation
\* token; and in every case no echoed line is empty.
C19_NoBlankLineNoToken ==
    /\ (Drained /\ FirstBlank = 0) =>
            /\ echoed = Records(Len(received))
            /\ resumeKey = None
            /\ ReportedKeys = <<>>
    /\ \A i \in 1..Len(echoed) : echoed[i] # <<>>

\* C19's case: a drained response of three lines, none blank, the last one
\* without a terminator.
C19_Witness ==
    /\ Drained
    /\ Len(received) = 3
    /\ FirstBlank = 0
    /\ ~Terminated(received[3])
    /\ Len(echoed) = 3

\* -------------------------------------------------------- claims about fetch

\* fetch has ended, by returning or by an exception.
FetchEnded == cmd = "fetch" /\ pc = "exited"

\* C1 (as the specification states it): no execution of fetch ends with the
\* session started and not stopped, whichever way fetch is left.
C1_StoppedOnEveryExit ==
    (FetchEnded /\ starts > 0) => session = "stopped"

\* C2 (as the specification states it): stop is never called more often than
\* start nor before it, the session is started at most once, and when fetch
\* has ended stop has been called exactly once for the one start.
C2_StopExactlyOncePerStart ==
    /\ stops <= starts
    /\ starts <= 1
    /\ session = "stopped" => stops = 1
    /\ FetchEnded => stops = starts

\* C3 (as the specification states it): when fetch has ended, the job-list
\* file it created no longer exists.
C3_ShotsFileDeleted ==
    FetchEnded => ~shots_file.exists

\* The lines read so far that the claim C8 counts: non-blank, and not
\* beginning with the comment marker.
UncommentedLines ==
    SelectSeq(url_lines, LAMBDA l : ~IsBlank(l) /\ ~startswith(l, "#"))

\* The lines read so far that are, once stripped, non-empty and do not begin
\* with the comment marker.
UrlLinesKept ==
    SelectSeq(url_lines, LAMBDA l : ~IsBlank(l) /\ ~startswith(strip(l), "#"))

\* C8 (as the specification states it): the batch has exactly one job per
\* line read that is non-blank and does not begin with '#', in input order.
C8_OneJobPerUncommentedLine ==
    cmd = "fetch" =>
        /\ Len(shots) = Len(UncommentedLines)
        /\ \A i \in 1..Len(shots) : shots[i].url = strip(UncommentedLines[i])

\* C8, amended: the batch has exactly one job per line read that, once its
\* surrounding whitespace is stripped, is non-empty and does not begin with
\* '#', in input order and with duplicates kept; the job's URL is the stripped
\* line, its output path depends on its URL only, and its wait, width, height
\* and padding are the fixed defaults.
C8_OneJobPerKeptLine ==
    cmd = "fetch" =>
        LET kept == UrlLinesKept IN
        /\ Len(shots) = Len(kept)
        /\ \A i \in 1..Len(shots) :
            /\ shots[i].url = strip(kept[i])
            /\ shots[i].wait = 15000
            /\ shots[i].width = 800
            /\ shots[i].height = 800
            /\ shots[i].padding = 0
            /\ \A j \in 1..Len(shots) :
                shots[i].url = shots[j].url => shots[i].output = shots[j].output

\* C8's case: the whole file is read; it held a URL, a comment after leading
\* whitespace, and a second URL with whitespace around it.
C8_Witness ==
    /\ cmd = "fetch"
    /\ pc = "tempfile"
    /\ url_lines = << <<"a", "\n">>, <<" ", "#", "c", "\n">>,
                      <<" ", "b", " ", "\n">> >>
    /\ Len(shots) = 2

\* What C9 says of a stack's sequence for a source.
StackShape(s, seq) ==
    IF s = "live"
    THEN /\ Len(seq) = 1
         /\ seq[1].index = Some(sources.live)
         /\ seq[1].archive_paths = None
    ELSE /\ Len(seq) = 2
         /\ seq[1].archive_paths # None
         /\ seq[1].index_paths # None
         /\ seq[1].index = None
         /\ seq[2].archive_paths = None
         /\ seq[2].index = Some(sources.ia)

\* C9: the stack load() builds has, for 'live', exactly one tier, the live
\* source, and for every other source exactly two tiers, the local recording
\* tier at position 0 and the remote archival index at position 1: in the
\* session fetch has started, and for each source the embedded server accepts.
C9_StackShape ==
    /\ extra_config # None =>
            StackShape(source, extra_config[1].collections.stack.sequence)
    /\ \A s \in DOMAIN sources :
            StackShape(s, load(parse_args(s)).collections.stack.sequence)

\* C9's case: a session loaded for an archival source.
C9_Witness ==
    /\ cmd = "fetch"
    /\ source = "ia"
    /\ session = "started"
    /\ Len(extra_config[1].collections.stack.sequence) = 2

\* The proxy has answered its latest request from the tier at position n.
AnsweredFrom(n) == reply # None /\ reply[1].tier = n

C12_CaptureOnlyWhileStartedAndReady ==
    /\ capture = "running" => (session = "started" /\ waited)
    /\ capture # "idle" => (starts = 1 /\ waited)
    /\ session = "none" => capture = "idle"
    /\ session = "stopped" => capture \in {"returned", "returned with failures"}
    /\ reply # None => waited

\* C12's case: the capture tool is running and the proxy has answered it.
C12_Witness ==
    /\ cmd = "fetch"
    /\ capture = "running"
    /\ session = "started"
    /\ waited
    /\ reply # None

\* C13: from the capture tool's invocation to its return the proxy's default
\* timestamp is the one asked of fetch, whatever load() configured, and every
\* request of the batch is answered at that timestamp.
C13_BatchPinnedToRequestedTimestamp ==
    /\ capture = "running" => proxy_default_timestamp = Some(timestamp)
    /\ reply # None => reply[1].timestamp = timestamp

\* C13's case: the capture tool runs, fetch was asked for a timestamp that is
\* not the one the session was loaded with, and the proxy has answered.
C13_Witness ==
    /\ cmd = "fetch"
    /\ capture = "running"
    /\ timestamp = "20200101000000"
    /\ extra_config[1].proxy.default_timestamp = DefaultTimestamp
    /\ proxy_default_timestamp = Some("20200101000000")
    /\ reply # None

\* The values of Timestamps in the 14-digit form YYYYMMDDHHMMSS.
FourteenDigitTimestamps == {DefaultTimestamp, "20200101000000"}

\* C14 (as the specification states it): a fetch asked for a timestamp that
\* is not of the 14-digit form has failed at once: it has ended with an error,
\* the session was not started and the capture tool was not invoked.
C14_MalformedTimestampRejected ==
    (cmd = "fetch" /\ timestamp \notin FourteenDigitTimestamps) =>
        /\ pc = "exited"
        /\ error # None
        /\ session = "none"
        /\ starts = 0
        /\ capture = "idle"

\* ---------------------------------------------- claims about the proxy at work

\* The step is a request answered by the proxy of an archival session.
ArchivalRequest ==
    /\ cmd = "fetch"
    /\ source # "live"
    /\ reply' # reply

C18_LocalHitNotRecorded ==
    [][ (ArchivalRequest /\ reply'[1].tier = 0) =>
            /\ ~reply'[1].recorded
            /\ archive' = archive
            /\ ~RecorderAccepts(extra_config[1],
                                extra_config[1].collections.stack.sequence[1])
      ]_vars

\* C18's case: an archival session has answered a request from tier 0.
C18_Witness ==
    /\ cmd = "fetch"
    /\ source = "ia"
    /\ AnsweredFrom(0)
    /\ ~reply[1].recorded
    /\ <<reply[1].url, reply[1].timestamp>> \in archive

====
